---- MODULE Spec2Model ----
(***************************************************************************)
(* Model of the three computing request handlers of the 100ms relay        *)
(* backend (app.js):                                                       *)
(*   GET /session-list-by-room       the cursor-chained page walker        *)
(*   GET /list-rooms                 the fan-out/join room-code enrichment *)
(*   GET /session-analytics-by-room  the per-user duration aggregation     *)
(* Each handler is a chain of steps separated by `await`; one action is    *)
(* one such step (everything the handler runs between two suspension       *)
(* points).  The upstream Resource API (apiService.get) is the             *)
(* environment: it answers every request with a failure or with a body.    *)
(* JavaScript values that the handlers can confuse (array / number /       *)
(* string / undefined) are modelled as tagged records.                     *)
(***************************************************************************)
EXTENDS Integers, Sequences, FiniteSets, TLC

VARIABLES
    \* ---- GET /session-list-by-room
    sl_pc,          \* "off" | "idle" | "await" | "replied"
    room_id,        \* req.query.room_id
    totalItems,     \* number of sessions the upstream holds for the room
    allSessions,    \* the handler's accumulator (a JS value)
    last,           \* the handler's cursor (a JS value)
    sl_inflight,    \* upstream /sessions requests not yet answered
    sl_requests,    \* history: every filters object handed to apiService.get
    sl_responses,   \* history: every answer received, in order
    sl_res,         \* the HTTP reply
    \* ---- GET /list-rooms
    lr_pc,          \* "off" | "idle" | "base" | "join" | "replied"
    roomListData,   \* the body of GET /rooms
    lr_pending,     \* positions whose room-codes sub-request is in flight
    lr_requests,    \* history: room id of every room-codes sub-request issued
    codesResponses, \* position -> the answer its sub-request got
    roomsWithGuestCodes, \* position -> value the mapper returned
    lr_order,       \* history: positions in completion order
    lr_res,         \* the HTTP reply
    \* ---- GET /session-analytics-by-room
    an_pc,          \* "off" | "idle" | "await" | "replied"
    an_requests,    \* number of upstream /sessions requests made
    sessionListData,\* the body of GET /sessions
    an_res          \* the HTTP reply

sl_vars == <<sl_pc, room_id, totalItems, allSessions, last, sl_inflight,
             sl_requests, sl_responses, sl_res>>
lr_vars == <<lr_pc, roomListData, lr_pending, lr_requests, codesResponses,
             roomsWithGuestCodes, lr_order, lr_res>>
an_vars == <<an_pc, an_requests, sessionListData, an_res>>
vars == <<sl_vars, lr_vars, an_vars>>

----------------------------------------------------------------------------
(* Bounds *)

MaxTotalItems == 45     \* sessions held upstream: 0 .. MaxTotalItems
MaxRooms == 3           \* rooms in the base collection: 0 .. MaxRooms
MaxPeers == 3           \* peer entries of a session: 0 .. MaxPeers

----------------------------------------------------------------------------
(* JavaScript values *)

JsUndefined == [t |-> "undefined", s |-> "", off |-> 0]
EmptyString == [t |-> "string", s |-> "", off |-> 0]
\* an opaque non-empty cursor string; off is the upstream's own reading of it
CursorToken(o) == [t |-> "string", s |-> "cursor", off |-> o]

\* the truthiness test of `if (last)`
Truthy(v) == v.t = "string" /\ v.s # ""

JsArray(a) == [t |-> "array", arr |-> a, num |-> 0, s |-> ""]
JsNumber(n) == [t |-> "number", arr |-> <<>>, num |-> n, s |-> ""]
JsString(x) == [t |-> "string", arr |-> <<>>, num |-> 0, s |-> x]
NoBody == [t |-> "none", arr |-> <<>>, num |-> 0, s |-> ""]

NoReply == [status |-> 0, body |-> NoBody]

----------------------------------------------------------------------------
(* GET /session-list-by-room *)

limit == 20

RoomIds == {"roomA", "roomB"}

\* const filters = { room_id, limit: 20 }; if (last) filters.start = last;
Filters_AlwaysStart(rid, lst) == [room_id |-> rid, limit |-> limit, start |-> lst]

Filters(rid, lst) ==
    [room_id |-> rid, limit |-> limit,
     start |-> IF Truthy(lst) THEN lst ELSE JsUndefined]

\* The upstream: the sessions after the cursor, at most `limit` of them.
Min(a, b) == IF a < b THEN a ELSE b

Slice(o, n) == [i \in 1..n |-> o + i]

PageOffset(f) == IF f.start.t = "string" THEN f.start.off ELSE 0

PageItems(f, total) ==
    LET o == Min(PageOffset(f), total)
    IN  Slice(o, Min(f.limit, total - o))

\* Every body the upstream may answer a request with: the page's items (or
\* no data field at all when there are none) and any `last` field.
Pages(f, total) ==
    LET items == PageItems(f, total)
        o == Min(PageOffset(f), total)
    IN  { [ok |-> TRUE, hasData |-> h, data |-> IF h THEN items ELSE <<>>, last |-> l] :
            h \in (IF items = <<>> THEN BOOLEAN ELSE {TRUE}),
            l \in {CursorToken(o + Len(items)), EmptyString, JsUndefined} }

Failure == [ok |-> FALSE, hasData |-> FALSE, data |-> <<>>, last |-> JsUndefined]

\* !someSessionListData.data || someSessionListData.data.length == 0
IsEmptyPage_OnlyAbsent(page) == ~page.hasData

IsEmptyPage(page) == ~page.hasData \/ Len(page.data) = 0

\* someSessionListData.data.length < 20
ShortPage(page) == Len(page.data) < 20

\* Array.prototype.push returns the new length of the array
Push(a, x) == JsNumber(Len(a.arr) + 1)

\* only an array has a push method
HasPush(a) == a.t = "array"

\* catch (err) { res.status(500).send("Internal Server Error") }
InternalServerError_Partial(acc) == [status |-> 200, body |-> acc]

InternalServerError(acc) == [status |-> 500, body |-> JsString("Internal Server Error")]

\* res.json(allSessions)
Json(v) == [status |-> 200, body |-> v]

\* One pass of the loop body after the await: what the handler does with a page.
\*   kind "reply": the loop is left (break, or a throw caught by the catch)
\*   kind "next" : `last` is set and the next iteration issues a request
OnPage_NoCatch(acc, page) ==
    IF IsEmptyPage(page)
    THEN [kind |-> "reply", acc |-> acc, res |-> Json(acc)]
    ELSE IF ~HasPush(acc)
    THEN [kind |-> "hang", acc |-> acc, res |-> NoReply]
    ELSE LET acc2 == Push(acc, page.data)
         IN  IF ShortPage(page)
             THEN [kind |-> "reply", acc |-> acc2, res |-> Json(acc2)]
             ELSE [kind |-> "next", acc |-> acc2, res |-> NoReply]

OnPage(acc, page) ==
    IF IsEmptyPage(page)
    THEN [kind |-> "reply", acc |-> acc, res |-> Json(acc)]
    ELSE IF ~HasPush(acc)
    THEN [kind |-> "reply", acc |-> acc, res |-> InternalServerError(acc)]
    ELSE LET acc2 == Push(acc, page.data)
         IN  IF ShortPage(page)
             THEN [kind |-> "reply", acc |-> acc2, res |-> Json(acc2)]
             ELSE [kind |-> "next", acc |-> acc2, res |-> NoReply]

\* The request arrives: allSessions = [], last undefined, first pass of the
\* loop up to the await.
SessionListStart ==
    /\ sl_pc = "idle"
    /\ allSessions' = JsArray(<<>>)
    /\ last' = JsUndefined
    /\ sl_inflight' = <<Filters(room_id, JsUndefined)>>
    /\ sl_requests' = <<Filters(room_id, JsUndefined)>>
    /\ sl_pc' = "await"
    /\ UNCHANGED <<room_id, totalItems, sl_responses, sl_res>>
    /\ UNCHANGED <<lr_vars, an_vars>>

\* The awaited request is answered with a body: the rest of the loop body
\* and, unless the loop is left, the next pass up to its await.
SessionListOnPage ==
    /\ sl_pc = "await"
    /\ sl_inflight # <<>>
    /\ \E page \in Pages(Head(sl_inflight), totalItems) :
         LET out == OnPage(allSessions, page)
         IN  /\ sl_responses' = Append(sl_responses, page)
             /\ allSessions' = out.acc
             /\ IF out.kind = "next"
                THEN /\ last' = page.last
                     /\ sl_inflight' = <<Filters(room_id, page.last)>>
                     /\ sl_requests' = Append(sl_requests, Filters(room_id, page.last))
                     /\ sl_pc' = "await"
                     /\ sl_res' = sl_res
                ELSE /\ last' = last
                     /\ sl_inflight' = <<>>
                     /\ sl_requests' = sl_requests
                     /\ sl_pc' = IF out.kind = "reply" THEN "replied" ELSE "await"
                     /\ sl_res' = out.res
    /\ UNCHANGED <<room_id, totalItems>>
    /\ UNCHANGED <<lr_vars, an_vars>>

\* The awaited request fails: the await throws into the catch.
SessionListOnError ==
    /\ sl_pc = "await"
    /\ sl_inflight # <<>>
    /\ sl_responses' = Append(sl_responses, Failure)
    /\ sl_inflight' = <<>>
    /\ sl_res' = InternalServerError(allSessions)
    /\ sl_pc' = "replied"
    /\ UNCHANGED <<room_id, totalItems, allSessions, last, sl_requests>>
    /\ UNCHANGED <<lr_vars, an_vars>>


----------------------------------------------------------------------------
(* GET /list-rooms *)

RoomNames == {"r1", "r2"}

Room(id) == [id |-> id]

\* Sequences over S of length 0 .. n
SeqUpTo(S, n) == UNION { [1..k -> S] : k \in 0..n }

\* Bodies of GET /rooms: null, an object without data, or { data: [...] }
RoomsBodies ==
    { [kind |-> "null", data |-> <<>>], [kind |-> "nodata", data |-> <<>>] }
    \cup { [kind |-> "list", data |-> d] :
             d \in SeqUpTo({Room(id) : id \in RoomNames}, MaxRooms) }

NoRooms == [kind |-> "null", data |-> <<>>]

\* roomListData && roomListData.data && roomListData.data.length > 0
HasRooms(body) == body.kind = "list" /\ Len(body.data) > 0

\* The codes the upstream holds for a room, as a sequence of roles
CodeShapes == { <<>>, <<"guest">>, <<"host", "guest">> }

Codes(rid, shape) ==
    [i \in 1..Len(shape) |-> [room_id |-> rid, role |-> shape[i], code |-> i]]

\* Answers to GET /room-codes/room/{id}: a failure, a body without data, or
\* { data: [...] }
CodesAnswers(rid) ==
    { [ok |-> FALSE, hasData |-> FALSE, data |-> <<>>],
      [ok |-> TRUE, hasData |-> FALSE, data |-> <<>>] }
    \cup { [ok |-> TRUE, hasData |-> TRUE, data |-> Codes(rid, sh)] : sh \in CodeShapes }

NoAnswer == [ok |-> FALSE, hasData |-> FALSE, data |-> <<>>]

\* roomCodesResponse.data.filter((code) => code.role === "guest")
IsGuest(code) == code.role = "guest"

GuestCodes(data) == SelectSeq(data, IsGuest)

NotSettled(room) ==
    [settled |-> FALSE, room |-> room, guest_room_codes |-> <<>>,
     has_error_fetching_codes |-> FALSE, error_fetching_codes |-> ""]

\* The async mapper of one room, after its await: the try branch returns
\* { ...room, guest_room_codes }, the catch branch returns the room with no
\* codes and the error marker.
MapRoom_NoMarker(room, resp) ==
    [settled |-> TRUE, room |-> room,
     guest_room_codes |-> IF resp.ok /\ resp.hasData THEN GuestCodes(resp.data) ELSE <<>>,
     has_error_fetching_codes |-> FALSE, error_fetching_codes |-> ""]

MapRoom(room, resp) ==
    IF resp.ok
    THEN [settled |-> TRUE, room |-> room,
          guest_room_codes |-> IF resp.hasData THEN GuestCodes(resp.data) ELSE <<>>,
          has_error_fetching_codes |-> FALSE, error_fetching_codes |-> ""]
    ELSE [settled |-> TRUE, room |-> room, guest_room_codes |-> <<>>,
          has_error_fetching_codes |-> TRUE,
          error_fetching_codes |-> "Failed to retrieve room codes"]

\* Promise.all resolves once every mapper promise has settled ...
JoinReady_Race(pending) == TRUE

JoinReady(pending) == pending = {}

\* ... with the mappers' values by position in the input
PromiseAll_CompletionOrder(slots, order) ==
    [k \in 1..Len(order) |-> slots[order[k]]]

PromiseAll(slots, order) == [p \in 1..Len(slots) |-> slots[p]]

NoRoomsReply ==
    [status |-> 0, kind |-> "none", text |-> "", enriched |-> FALSE,
     base |-> NoRooms, data |-> <<>>]

\* res.json(roomListData)
JsonRooms(body) ==
    [status |-> 200, kind |-> "json", text |-> "", enriched |-> FALSE,
     base |-> body, data |-> <<>>]

\* res.json({ ...roomListData, data: roomsWithGuestCodes })
JsonEnriched(body, enrichedRooms) ==
    [status |-> 200, kind |-> "json", text |-> "", enriched |-> TRUE,
     base |-> body, data |-> enrichedRooms]

RoomsServerError ==
    [status |-> 500, kind |-> "text", text |-> "Internal Server Error",
     enriched |-> FALSE, base |-> NoRooms, data |-> <<>>]

\* The request arrives: apiService.get("/rooms") is awaited.
ListRoomsStart ==
    /\ lr_pc = "idle"
    /\ lr_pc' = "base"
    /\ UNCHANGED <<roomListData, lr_pending, lr_requests, codesResponses,
                   roomsWithGuestCodes, lr_order, lr_res>>
    /\ UNCHANGED <<sl_vars, an_vars>>

\* GET /rooms is answered: with rooms, map() calls every mapper, each runs
\* up to its await (its sub-request is issued), and Promise.all is awaited;
\* without rooms the body is passed through.
ListRoomsOnRooms ==
    /\ lr_pc = "base"
    /\ \E body \in RoomsBodies :
         /\ roomListData' = body
         /\ IF HasRooms(body)
            THEN /\ lr_pending' = 1..Len(body.data)
                 /\ lr_requests' = [p \in 1..Len(body.data) |-> body.data[p].id]
                 /\ codesResponses' = [p \in 1..Len(body.data) |-> NoAnswer]
                 /\ roomsWithGuestCodes' =
                        [p \in 1..Len(body.data) |-> NotSettled(body.data[p])]
                 /\ lr_pc' = "join"
                 /\ lr_res' = lr_res
            ELSE /\ lr_res' = JsonRooms(body)
                 /\ lr_pc' = "replied"
                 /\ UNCHANGED <<lr_pending, lr_requests, codesResponses,
                                roomsWithGuestCodes>>
    /\ UNCHANGED lr_order
    /\ UNCHANGED <<sl_vars, an_vars>>

\* GET /rooms fails: the outer catch.
ListRoomsOnRoomsError ==
    /\ lr_pc = "base"
    /\ lr_res' = RoomsServerError
    /\ lr_pc' = "replied"
    /\ UNCHANGED <<roomListData, lr_pending, lr_requests, codesResponses,
                   roomsWithGuestCodes, lr_order>>
    /\ UNCHANGED <<sl_vars, an_vars>>

\* One room-codes sub-request settles (any pending one, with any answer):
\* its mapper finishes; when it was the last one, Promise.all resolves and
\* the handler replies.
RoomCodesSettle ==
    /\ lr_pc = "join"
    /\ \E p \in lr_pending : \E resp \in CodesAnswers(lr_requests[p]) :
         LET slots == [roomsWithGuestCodes EXCEPT ![p] = MapRoom(roomListData.data[p], resp)]
             order == Append(lr_order, p)
         IN  /\ codesResponses' = [codesResponses EXCEPT ![p] = resp]
             /\ roomsWithGuestCodes' = slots
             /\ lr_order' = order
             /\ lr_pending' = lr_pending \ {p}
             /\ IF JoinReady(lr_pending \ {p})
                THEN /\ lr_res' = JsonEnriched(roomListData, PromiseAll(slots, order))
                     /\ lr_pc' = "replied"
                ELSE /\ lr_res' = lr_res
                     /\ lr_pc' = "join"
    /\ UNCHANGED <<roomListData, lr_requests>>
    /\ UNCHANGED <<sl_vars, an_vars>>


----------------------------------------------------------------------------
(* GET /session-analytics-by-room *)

UserIds == {"u1", "u2"}
Names == {"Ann", "Bob"}
JoinedAts == {0}
LeftAts == {-900, 120000, 300300}     \* milliseconds
UpdatedAts == {300300, 720000}

Peers ==
    [user_id : UserIds, name : Names, joined_at : JoinedAts, left_at : LeftAts]

Sessions ==
    [id : {"s1"}, created_at : {0}, updated_at : UpdatedAts,
     peers : SeqUpTo(Peers, MaxPeers)]

\* Bodies of GET /sessions: an object without data, or { data: [...] }
SessionBodies ==
    { [hasData |-> FALSE, data |-> <<>>], [hasData |-> TRUE, data |-> <<>>] }
    \cup { [hasData |-> TRUE, data |-> <<ses>>] : ses \in Sessions }

NoSessions == [hasData |-> FALSE, data |-> <<>>]

\* Numbers are held in hundredths of a minute (exact arithmetic); a string is
\* a sequence of parts, each a literal text or the decimal text of a number.
Num(h) == [t |-> "number", num |-> h, str |-> <<>>]
Str(parts) == [t |-> "string", num |-> 0, str |-> parts]
Obj == [t |-> "object", num |-> 0, str |-> <<>>]
Lit(x) == [lit |-> x, n |-> 0]
NumText(h) == [lit |-> "", n |-> h]

ToStr(v) ==
    IF v.t = "number" THEN <<NumText(v.num)>>
    ELSE IF v.t = "object" THEN <<Lit("[object Object]")>>
    ELSE v.str

\* the JavaScript + operator: addition of two numbers, else concatenation
JsPlus(a, b) ==
    IF a.t = "number" /\ b.t = "number"
    THEN Num(a.num + b.num)
    ELSE Str(ToStr(a) \o ToStr(b))

\* moment(peer.left_at).diff(moment(peer.joined_at)), in milliseconds
Diff(later, earlier) == later - earlier

\* Math.round(duration * 100) / 100 with duration = ms / 60000, in
\* hundredths: Math.round rounds a half towards +infinity
RoundedDuration(ms) == (ms + 300) \div 600

\* (ms / 60000).toFixed(2), in hundredths: toFixed rounds a half away from zero
Abs(x) == IF x < 0 THEN -x ELSE x

ToFixed2(ms) == (IF ms < 0 THEN -1 ELSE 1) * ((Abs(ms) + 300) \div 600)

\* a string with exactly two decimals
Fixed2(h) == [fixed2 |-> h]

IndexOf(acc, uid) ==
    IF \E i \in 1..Len(acc) : acc[i].user_id = uid
    THEN CHOOSE i \in 1..Len(acc) : acc[i].user_id = uid
    ELSE 0

\* acc[peer.user_id] || 0 : the entry stored under the key is an object
PrevOrZero(acc, uid) == IF IndexOf(acc, uid) = 0 THEN Num(0) ELSE Obj

\* one pass of the reduce callback; acc keeps its keys in insertion order
ReduceStep(acc, peer) ==
    LET entry == [name |-> peer.name, user_id |-> peer.user_id,
                  duration |-> JsPlus(PrevOrZero(acc, peer.user_id),
                                      Num(RoundedDuration(Diff(peer.left_at, peer.joined_at))))]
        i == IndexOf(acc, peer.user_id)
    IN  IF i = 0 THEN Append(acc, entry) ELSE [acc EXCEPT ![i] = entry]

RECURSIVE Reduce(_, _)
Reduce(peers, acc) ==
    IF peers = <<>> THEN acc ELSE Reduce(Tail(peers), ReduceStep(acc, Head(peers)))

\* Object.values(peers.reduce(..., {}))
DetailsByUser(peers) == Reduce(peers, <<>>)

\* result.reduce((a, b) => a + b.duration, 0)
RECURSIVE SumDurations(_, _)
SumDurations(result, a) ==
    IF result = <<>> THEN a
    ELSE SumDurations(Tail(result), JsPlus(a, Head(result).duration))

\* sessionListData.data.length > 0
HasSession_AnyLength(body) == Len(body.data) >= 0

HasSession(body) == Len(body.data) > 0

NoAnalyticsReply ==
    [status |-> 0, kind |-> "none", text |-> "", user_duration_list |-> <<>>,
     session_duration |-> Fixed2(0), total_peer_duration |-> Fixed2(0)]

AnalyticsText(st, txt) ==
    [status |-> st, kind |-> "text", text |-> txt, user_duration_list |-> <<>>,
     session_duration |-> Fixed2(0), total_peer_duration |-> Fixed2(0)]

AnalyticsJson(result, sessionDuration, totalDuration) ==
    [status |-> 200, kind |-> "json", text |-> "", user_duration_list |-> result,
     session_duration |-> sessionDuration, total_peer_duration |-> totalDuration]

\* The handler after its await, given the body of GET /sessions.  A
\* TypeError (length of undefined, a property of undefined, toFixed of a
\* string) lands in the catch.
Analytics(body) ==
    IF ~body.hasData
    THEN AnalyticsText(500, "Internal Server Error")
    ELSE IF ~HasSession(body)
    THEN AnalyticsText(404, "No session found for this room")
    ELSE IF Len(body.data) = 0
    THEN AnalyticsText(500, "Internal Server Error")
    ELSE LET sessionData == body.data[1]
             result == DetailsByUser(sessionData.peers)
             total == SumDurations(result, Num(0))
         IN  IF total.t # "number"
             THEN AnalyticsText(500, "Internal Server Error")
             ELSE AnalyticsJson(result,
                      Fixed2(ToFixed2(Diff(sessionData.updated_at, sessionData.created_at))),
                      Fixed2(total.num))

\* The request arrives: apiService.get("/sessions", { room_id }) is awaited.
AnalyticsStart ==
    /\ an_pc = "idle"
    /\ an_requests' = an_requests + 1
    /\ an_pc' = "await"
    /\ UNCHANGED <<sessionListData, an_res>>
    /\ UNCHANGED <<sl_vars, lr_vars>>

\* GET /sessions is answered with a body.
AnalyticsOnSessions ==
    /\ an_pc = "await"
    /\ \E body \in SessionBodies :
         /\ sessionListData' = body
         /\ an_res' = Analytics(body)
    /\ an_pc' = "replied"
    /\ UNCHANGED an_requests
    /\ UNCHANGED <<sl_vars, lr_vars>>

\* GET /sessions fails: the catch.
AnalyticsOnError ==
    /\ an_pc = "await"
    /\ an_res' = AnalyticsText(500, "Internal Server Error")
    /\ an_pc' = "replied"
    /\ UNCHANGED <<an_requests, sessionListData>>
    /\ UNCHANGED <<sl_vars, lr_vars>>


----------------------------------------------------------------------------
(* Specifications: one inbound request to one endpoint *)

InitSessions ==
    /\ sl_pc = "idle"
    /\ room_id \in RoomIds
    /\ totalItems \in 0..MaxTotalItems
    /\ allSessions = JsArray(<<>>)
    /\ last = JsUndefined
    /\ sl_inflight = <<>>
    /\ sl_requests = <<>>
    /\ sl_responses = <<>>
    /\ sl_res = NoReply
    /\ lr_pc = "off"
    /\ roomListData = NoRooms
    /\ lr_pending = {}
    /\ lr_requests = <<>>
    /\ codesResponses = <<>>
    /\ roomsWithGuestCodes = <<>>
    /\ lr_order = <<>>
    /\ lr_res = NoRoomsReply
    /\ an_pc = "off"
    /\ an_requests = 0
    /\ sessionListData = NoSessions
    /\ an_res = NoAnalyticsReply

InitRooms ==
    /\ sl_pc = "off"
    /\ room_id = "roomA"
    /\ totalItems = 0
    /\ allSessions = JsArray(<<>>)
    /\ last = JsUndefined
    /\ sl_inflight = <<>>
    /\ sl_requests = <<>>
    /\ sl_responses = <<>>
    /\ sl_res = NoReply
    /\ lr_pc = "idle"
    /\ roomListData = NoRooms
    /\ lr_pending = {}
    /\ lr_requests = <<>>
    /\ codesResponses = <<>>
    /\ roomsWithGuestCodes = <<>>
    /\ lr_order = <<>>
    /\ lr_res = NoRoomsReply
    /\ an_pc = "off"
    /\ an_requests = 0
    /\ sessionListData = NoSessions
    /\ an_res = NoAnalyticsReply

InitAnalytics ==
    /\ sl_pc = "off"
    /\ room_id = "roomA"
    /\ totalItems = 0
    /\ allSessions = JsArray(<<>>)
    /\ last = JsUndefined
    /\ sl_inflight = <<>>
    /\ sl_requests = <<>>
    /\ sl_responses = <<>>
    /\ sl_res = NoReply
    /\ lr_pc = "off"
    /\ roomListData = NoRooms
    /\ lr_pending = {}
    /\ lr_requests = <<>>
    /\ codesResponses = <<>>
    /\ roomsWithGuestCodes = <<>>
    /\ lr_order = <<>>
    /\ lr_res = NoRoomsReply
    /\ an_pc = "idle"
    /\ an_requests = 0
    /\ sessionListData = NoSessions
    /\ an_res = NoAnalyticsReply

NextSessions == SessionListStart \/ SessionListOnPage \/ SessionListOnError

NextRooms ==
    ListRoomsStart \/ ListRoomsOnRooms \/ ListRoomsOnRoomsError \/ RoomCodesSettle

NextAnalytics == AnalyticsStart \/ AnalyticsOnSessions \/ AnalyticsOnError

SpecSessions == InitSessions /\ [][NextSessions]_vars

\* the upstream answers every request and the event loop then runs the
\* handler's continuation
FairSpecSessions == SpecSessions /\ WF_vars(NextSessions)

SpecRooms == InitRooms /\ [][NextRooms]_vars

SpecAnalytics == InitAnalytics /\ [][NextAnalytics]_vars

----------------------------------------------------------------------------
(* Claims about GET /session-list-by-room *)

CeilDiv(a, b) == (a + b - 1) \div b

AllOk(resps, n) == \A m \in 1..n : resps[m].ok

\* the answers received are k >= 0 full pages followed by one page of
\* 0 < s < limit items
FullThenShort(resps) ==
    /\ Len(resps) >= 1
    /\ AllOk(resps, Len(resps))
    /\ \A m \in 1..(Len(resps) - 1) : Len(resps[m].data) = limit
    /\ Len(resps[Len(resps)].data) \in 1..(limit - 1)

PageGroups(resps) == [m \in 1..Len(resps) |-> resps[m].data]

\* C1: when the upstream has answered k full pages and then one page of
\* 0 < s < 20 items, the handler has issued exactly k+1 requests and replied
\* 200 with an array of k+1 page-groups, one per fetched page in fetch order.
C1_PageGroupsPerPage ==
    FullThenShort(sl_responses) =>
        /\ sl_pc = "replied"
        /\ Len(sl_requests) = Len(sl_responses)
        /\ sl_res.status = 200
        /\ sl_res.body.t = "array"
        /\ sl_res.body.arr = PageGroups(sl_responses)

FirstPageEmpty ==
    /\ Len(sl_responses) >= 1
    /\ sl_responses[1].ok
    /\ (~sl_responses[1].hasData \/ sl_responses[1].data = <<>>)

\* C5: when the first page has no item sequence or an empty one, the handler
\* issues no request after the first and replies 200 with the empty list.
C5_EmptyFirstPage ==
    FirstPageEmpty =>
        /\ sl_pc = "replied"
        /\ Len(sl_requests) = 1
        /\ sl_inflight = <<>>
        /\ sl_res.status = 200
        /\ sl_res.body = JsArray(<<>>)

C5_Witness ==
    /\ sl_pc = "replied"
    /\ Len(sl_responses) = 1
    /\ sl_responses[1].ok /\ sl_responses[1].hasData
    /\ sl_responses[1].data = <<>>

\* C6: when the first N >= 0 page fetches succeed and fetch N+1 fails, the
\* reply is a 500 whose body holds none of the fetched items, and no request
\* is issued after the failed one.
C6_FailureLosesPages ==
    \A n \in 1..Len(sl_responses) :
        (~sl_responses[n].ok /\ AllOk(sl_responses, n - 1)) =>
            /\ sl_pc = "replied"
            /\ sl_res.status = 500
            /\ sl_res.body.t = "string"
            /\ sl_res.body.arr = <<>>
            /\ Len(sl_requests) = n
            /\ sl_inflight = <<>>

C6_Witness ==
    /\ Len(sl_responses) = 2
    /\ sl_responses[1].ok /\ Len(sl_responses[1].data) = limit
    /\ ~sl_responses[2].ok
    /\ sl_pc = "replied"

\* C8: the handler makes at most ceil(totalItems / 20) + 1 upstream requests
\* and eventually replies.
C8_BoundedAndTerminates ==
    /\ [](Len(sl_requests) <= CeilDiv(totalItems, limit) + 1)
    /\ <>(sl_pc = "replied")

C8_Witness ==
    /\ sl_pc = "replied"
    /\ Len(sl_requests) = 2
    /\ CeilDiv(totalItems, limit) + 1 = 2

Serialized ==
    /\ Len(sl_inflight) <= 1
    /\ Len(sl_requests) >= 1 => sl_requests[1].start = JsUndefined
    /\ \A n \in 1..Len(sl_requests) :
         /\ sl_requests[n].room_id = room_id
         /\ sl_requests[n].limit = 20
    /\ \A n \in 2..Len(sl_requests) :
         /\ Len(sl_responses) >= n - 1
         /\ sl_responses[n - 1].ok
         /\ Len(sl_responses[n - 1].data) = 20

\* C10 as stated: at most one request in flight, the first without start,
\* every later request n+1 issued after a 20-item page n and carrying
\* start = the `last` of page n, with the same room_id and limit 20.
C10_StartIsLast ==
    /\ Serialized
    /\ \A n \in 2..Len(sl_requests) :
         sl_requests[n].start = sl_responses[n - 1].last

\* C10 amended: as above, but request n+1 carries start = the `last` of page
\* n only when that value is truthy (a non-empty string); when it is absent
\* or falsy the request carries no start parameter.
C10_StartIsTruthyLast ==
    /\ Serialized
    /\ \A n \in 2..Len(sl_requests) :
         LET l == sl_responses[n - 1].last
         IN  IF l.t = "string" /\ l.s # ""
             THEN sl_requests[n].start = l
             ELSE sl_requests[n].start.t = "undefined"

C10_Witness ==
    /\ Len(sl_requests) = 2
    /\ sl_responses[1].last = EmptyString
    /\ sl_requests[2].start.t = "undefined"

----------------------------------------------------------------------------
(* Claims about GET /list-rooms *)

NumRooms == Len(roomListData.data)

\* the guest-role codes of an answer, computed position by position
RECURSIVE OnlyGuests(_)
OnlyGuests(data) ==
    IF data = <<>> THEN <<>>
    ELSE IF Head(data).role = "guest"
         THEN <<Head(data)>> \o OnlyGuests(Tail(data))
         ELSE OnlyGuests(Tail(data))

AllSettled ==
    /\ roomListData.kind = "list" /\ NumRooms > 0
    /\ lr_pc \in {"join", "replied"}
    /\ lr_pending = {}

\* C3: when the sub-request of room i fails and every other one succeeds,
\* the reply is a 200 in which room i has guest_room_codes = [] and the
\* error marker, and every other room has exactly the guest codes of its own
\* answer and no marker.
C3_PartialFailureIsolated ==
    AllSettled =>
        \A i \in 1..NumRooms :
            ( /\ ~codesResponses[i].ok
              /\ \A j \in (1..NumRooms) \ {i} : codesResponses[j].ok ) =>
                /\ lr_pc = "replied"
                /\ lr_res.status = 200
                /\ Len(lr_res.data) = NumRooms
                /\ lr_res.data[i].room = roomListData.data[i]
                /\ lr_res.data[i].guest_room_codes = <<>>
                /\ lr_res.data[i].has_error_fetching_codes
                /\ \A j \in (1..NumRooms) \ {i} :
                     /\ lr_res.data[j].room = roomListData.data[j]
                     /\ lr_res.data[j].guest_room_codes = OnlyGuests(codesResponses[j].data)
                     /\ ~lr_res.data[j].has_error_fetching_codes

C3_Witness ==
    /\ lr_pc = "replied"
    /\ NumRooms = 3
    /\ ~codesResponses[2].ok
    /\ codesResponses[1].ok /\ Len(codesResponses[1].data) = 2
    /\ codesResponses[3].ok /\ Len(codesResponses[3].data) = 1
    /\ lr_order = <<3, 2, 1>>

\* C4: whatever the completion order, the reply lists the rooms in the order
\* of the base response, and position p holds the enrichment of room p.
C4_OrderPreserved ==
    (lr_pc = "replied" /\ lr_res.enriched) =>
        /\ Len(lr_res.data) = NumRooms
        /\ \A p \in 1..NumRooms :
             /\ lr_res.data[p].room = roomListData.data[p]
             /\ lr_res.data[p].guest_room_codes = OnlyGuests(codesResponses[p].data)
             /\ lr_res.data[p].has_error_fetching_codes = ~codesResponses[p].ok

C4_Witness ==
    /\ lr_pc = "replied" /\ lr_res.enriched
    /\ NumRooms = 3
    /\ lr_order = <<3, 2, 1>>
    /\ roomListData.data[1] # roomListData.data[3]
    /\ ~codesResponses[1].ok
    /\ codesResponses[3].ok /\ Len(codesResponses[3].data) = 2

\* C9: with a non-empty base collection exactly one sub-request per room is
\* issued, all of them before any settles, and the reply is sent only when
\* none is pending any more.
C9_FullJoin ==
    /\ (roomListData.kind = "list" /\ NumRooms > 0) =>
         /\ lr_pc \in {"join", "replied"}
         /\ lr_requests = [p \in 1..NumRooms |-> roomListData.data[p].id]
         /\ \A p \in 1..NumRooms : (p \in lr_pending) = (\A k \in 1..Len(lr_order) : lr_order[k] # p)
         /\ Cardinality(lr_pending) + Len(lr_order) = NumRooms
    /\ lr_pc = "replied" => lr_pending = {}

C9_Witness ==
    /\ lr_pc = "replied"
    /\ NumRooms = 3
    /\ Len(lr_order) = 3
    /\ ~codesResponses[lr_order[1]].ok
    /\ codesResponses[lr_order[3]].ok

----------------------------------------------------------------------------
(* Claims about GET /session-analytics-by-room *)

AnsweredWithSession ==
    /\ an_pc = "replied"
    /\ sessionListData.hasData
    /\ Len(sessionListData.data) > 0

PeersOf == sessionListData.data[1].peers

UsersOf(peers) == { peers[k].user_id : k \in 1..Len(peers) }

HasRepeatedUser(peers) == Cardinality(UsersOf(peers)) < Len(peers)

RECURSIVE SumRounded(_, _)
SumRounded(peers, uid) ==
    IF peers = <<>> THEN 0
    ELSE (IF Head(peers).user_id = uid
          THEN (Head(peers).left_at - Head(peers).joined_at + 300) \div 600
          ELSE 0) + SumRounded(Tail(peers), uid)

\* C2: for a session in which some user_id has several peer entries, the
\* reply is a 200 whose user_duration_list has one entry per distinct
\* user_id, with duration = the sum of that user's durations, each rounded
\* to hundredths of a minute before being added.
C2_RepeatedUserSummed ==
    (AnsweredWithSession /\ HasRepeatedUser(PeersOf)) =>
        /\ an_res.status = 200
        /\ an_res.kind = "json"
        /\ Len(an_res.user_duration_list) = Cardinality(UsersOf(PeersOf))
        /\ \A u \in UsersOf(PeersOf) :
             \E k \in 1..Len(an_res.user_duration_list) :
                /\ an_res.user_duration_list[k].user_id = u
                /\ an_res.user_duration_list[k].duration = Num(SumRounded(PeersOf, u))

\* C7: when GET /sessions answers a data list with zero items, the reply is
\* a 404 without user_duration_list, session_duration or
\* total_peer_duration, after exactly one upstream request.
C7_EmptyListIs404 ==
    (an_pc = "replied" /\ sessionListData.hasData /\ sessionListData.data = <<>>) =>
        /\ an_res.status = 404
        /\ an_res.kind = "text"
        /\ an_res.user_duration_list = <<>>
        /\ an_requests = 1

C7_Witness ==
    /\ an_pc = "replied"
    /\ sessionListData.hasData /\ sessionListData.data = <<>>
    /\ an_res.status = 404

====
